---- MODULE Spec2Model ----
(***************************************************************************)
(* Model of src/main.py: the /chat handler of the character-chat backend,  *)
(* its interaction log (the log worksheet) and its progression store (the  *)
(* status worksheet).  Every call that leaves the process (the             *)
(* reply generator, the spreadsheet connection, each append_row,           *)
(* get_all_records and update_cell) is one atomic step of a handler, so    *)
(* that handlers running on different threads interleave at exactly the    *)
(* places where the code talks to a collaborator.                          *)
(***************************************************************************)
EXTENDS Integers, Sequences, FiniteSets, TLC

\* ------------------------------------------------------------- bounds

\* Days the wall clock ranges over.
MaxDay == 3
\* Requests accepted since the process started (caps the counters).
MaxReq == 2

\* ---------------------------------------------------------- constants

\* Points added on the first interaction of a date (line 119, line 152).
Award == 10
\* enumerate(records, start=2): sheet row number of the first data row.
FirstDataRow == 2

\* Handler threads serving /chat.
Procs == {"t1", "t2"}
\* The thread that serves when requests come one at a time.
SeqProcs == {"t1"}

Whitespace == {" ", "\t", "\n"}

\* Request bodies: user_text as a sequence of characters.
Texts == {<< >>, <<" ">>, <<"\n", " ">>, <<"a">>, <<" ", "a", "\t">>}
\* uid as a sequence of characters (one of them padded with a blank).
UidPool == {<<"u">>, <<" ", "u">>, <<"v">>}
\* Character keys a request may carry; "hikage" is the default of line 171.
CharKeys == {"hikage", "nobody"}
\* Keys of the persona catalog imported at line 14.
characters == {"hikage", "yami"}
\* Keys of the catalog a request may carry when the persona is being switched.
KeyPool == {"hikage", "yami"}
\* Texts the reply generator may produce (already stripped, line 209).
Replies == {"r"}

\* The fixed replies of lines 186, 190 and 223 and the stage of line 148,
\* transliterated (the module is ASCII).
RetryReply == "nanika nyuuryoku shite kudasai."
NotFoundReply == "kyara ga mitsukaranai yo."
ErrorReply == "eraa ga hassei shita yo. rogu wo kakunin shite ne."
InitialStage == "shoki"

\* strftime("%Y-%m-%d") of the days of the clock.
DateText == <<"2024-01-01", "2024-01-02", "2024-01-03", "2024-01-04",
              "2024-01-05", "2024-01-06", "2024-01-07">>
strftime(d) == DateText[d]

\* Columns A..H of the status sheet, by update_cell's column number.
ColName == <<"uid", "char_key", "stage", "last", "streak", "total", "gp", "lastgp">>

\* ------------------------------------------------------ pure functions

RECURSIVE LStrip(_)
LStrip(s) == IF s # << >> /\ Head(s) \in Whitespace THEN LStrip(Tail(s)) ELSE s

RECURSIVE RStrip(_)
RStrip(s) ==
  IF s # << >> /\ s[Len(s)] \in Whitespace THEN RStrip(SubSeq(s, 1, Len(s) - 1)) ELSE s

\* str(x).strip()
Strip(s) == RStrip(LStrip(s))

NotWhite(c) == c \notin Whitespace

\* A plausible slip: only blanks removed, tabs and line breaks kept.
RemoveBlanksOnly(t) ==
  LET NotBlank(c) == c # " " IN SelectSeq(t, NotBlank)

\* "".join(user_text.split())
RemoveWhitespace(t) == SelectSeq(t, NotWhite)

\* A plausible slip: the loop stops at the first data row without comparing
\* the uid.
FindRowFirst(records, uid) == IF records = << >> THEN 0 ELSE FirstDataRow

\* The loop of lines 83-89: the sheet row number of the first row whose
\* stripped uid equals the stripped uid of the request, 0 when there is none.
FindRow(records, uid) ==
  LET hits == {k \in 1..Len(records) : Strip(records[k].uid) = Strip(uid)}
  IN IF hits = {} THEN 0
     ELSE (CHOOSE k \in hits : \A j \in hits : k <= j) + FirstDataRow - 1

\* A plausible slip: the date test inverted.
SameDateInverted(last, today) == last # today

\* not (last_grumble_date != today), line 117
SameDate(last, today) == last = today

\* A plausible slip: the award given twice.
NextGPDouble(gp) == gp + Award + Award

\* current_gp += 10, line 119
NextGP(gp) == gp + Award

\* A plausible slip: the streak restarts on every new date.
NextStreakReset(n) == 1

\* consecutive_grumble_days += 1, line 120
NextStreak(n) == n + 1

\* A plausible slip: the count is written back without the increment.
NextTotalSame(n) == n

\* total_grumble_count += 1, line 132
NextTotal(n) == n + 1

\* A plausible slip: the first interaction is counted as zero.
NewUserRowZero(uid, ck, today) ==
  [uid |-> uid, char_key |-> ck, stage |-> InitialStage, last |-> today,
   streak |-> 1, total |-> 0, gp |-> Award, lastgp |-> today]

\* new_user_data, lines 145-154
NewUserRow(uid, ck, today) ==
  [uid |-> uid, char_key |-> ck, stage |-> InitialStage, last |-> today,
   streak |-> 1, total |-> 1, gp |-> Award, lastgp |-> today]

\* status_sheet.update_cell(i, col, v)
UpdateCell(sheet, i, col, v) ==
  [sheet EXCEPT ![i - FirstDataRow + 1][ColName[col]] = v]

\* -------------------------------------------------------------- state

VARIABLES
  status,    \* the data rows of the status worksheet (line 57)
  log,       \* the rows of the log worksheet (line 56)
  now,       \* the day datetime.datetime.now() falls on
  pc,        \* where each handler thread is
  loc,       \* each handler's local variables
  resp,      \* the reply field of the JSON each handler returned last
  nreq,      \* requests accepted since the process started
  reached,   \* history: per user, requests that called update_status
  seenDays   \* history: per user, the days of those requests

vars == <<status, log, now, pc, loc, resp, nreq, reached, seenDays>>

Users == {Strip(u) : u \in UidPool}

NoRow ==
  [uid |-> << >>, char_key |-> "", stage |-> "", last |-> "", streak |-> 0,
   total |-> 0, gp |-> 0, lastgp |-> ""]

NoLocals ==
  [uid |-> << >>, char_key |-> "", user_text |-> << >>, kind |-> "none",
   reply |-> "", today |-> "", i |-> 0, row |-> NoRow,
   current_gp |-> 0, consecutive_grumble_days |-> 0, total_grumble_count |-> 0,
   calledGen |-> FALSE, openedStore |-> FALSE, logged |-> FALSE,
   afterGenFail |-> FALSE, outcome |-> "none"]

\* The process starts with the worksheets as earlier runs left them: empty,
\* or holding what one request of uid "u" on day 1 wrote (lines 215, 145-155).
EarlierUid == <<"u">>
EarlierText == <<"a">>

Init ==
  /\ \/ /\ status = << >>
        /\ log = << >>
        /\ reached = [u \in Users |-> 0]
        /\ seenDays = [u \in Users |-> {}]
     \/ /\ status = <<NewUserRow(EarlierUid, "hikage", strftime(1))>>
        /\ log = <<[timestamp |-> strftime(1), uid |-> EarlierUid, char_key |-> "hikage",
                    user_text |-> EarlierText, reply |-> "r"]>>
        /\ reached = [u \in Users |-> IF u = Strip(EarlierUid) THEN 1 ELSE 0]
        /\ seenDays = [u \in Users |-> IF u = Strip(EarlierUid) THEN {1} ELSE {}]
  /\ now \in 1..MaxDay
  /\ pc = [p \in Procs |-> "idle"]
  /\ loc = [p \in Procs |-> NoLocals]
  /\ resp = [p \in Procs |-> "none"]
  /\ nreq = 0

Free(p) == pc[p] \in {"idle", "done"}

\* No handler is inside a request.
Quiet == \A p \in Procs : Free(p)

\* The raw user_text is empty or holds whitespace only.
IsBlank(t) == \A k \in 1..Len(t) : t[k] \in Whitespace

\* What the raw user_text of a request was (kept for the record only).
TextKind(t) == IF t = << >> THEN "empty" ELSE IF IsBlank(t) THEN "white" ELSE "text"

\* ------------------------------------------------------------ actions

\* The generator call raising with the exception leaving the handler
\* (no except clause around the body of chat): the thread answers nothing.
GenerateFailEscapes(p) ==
  /\ pc[p] = "gen"
  /\ pc' = [pc EXCEPT ![p] = "crashed"]
  /\ loc' = [loc EXCEPT ![p].calledGen = TRUE, ![p].outcome = "generror"]
  /\ UNCHANGED <<status, log, now, resp, nreq, reached, seenDays>>

\* A plausible slip: the catalog lookup never misses.
KnownCharAny(ck) == TRUE

\* characters.get(char_key) is truthy, lines 188-189
KnownChar(ck) == ck \in characters

\* chat, lines 168-190: a request arrives, its text is cleared of whitespace,
\* empty text and unknown character keys are answered at once (the locals of
\* a request answered here are dead on return and are not kept).
Receive(p, text, ck, uid) ==
  /\ Free(p)
  /\ nreq < MaxReq
  /\ nreq' = nreq + 1
  /\ LET user_text == RemoveWhitespace(text)
         r == [NoLocals EXCEPT !.kind = TextKind(text),
                               !.afterGenFail = (loc[p].outcome = "generror")]
         l == [r EXCEPT !.uid = uid, !.char_key = ck, !.user_text = user_text]
     IN IF user_text = << >>
        THEN /\ pc' = [pc EXCEPT ![p] = "done"]
             /\ resp' = [resp EXCEPT ![p] = RetryReply]
             /\ loc' = [loc EXCEPT ![p] = [r EXCEPT !.outcome = "rejected"]]
        ELSE IF ~KnownChar(ck)
        THEN /\ pc' = [pc EXCEPT ![p] = "done"]
             /\ resp' = [resp EXCEPT ![p] = NotFoundReply]
             /\ loc' = [loc EXCEPT ![p] = [r EXCEPT !.char_key = ck, !.outcome = "nochar"]]
        ELSE /\ pc' = [pc EXCEPT ![p] = "gen"]
             /\ resp' = [resp EXCEPT ![p] = "none"]
             /\ loc' = [loc EXCEPT ![p] = l]
  /\ UNCHANGED <<status, log, now, reached, seenDays>>

\* chat, lines 205-209: the two send_message calls succeed.
Generate(p, r) ==
  /\ pc[p] = "gen"
  /\ pc' = [pc EXCEPT ![p] = "sheet"]
  /\ loc' = [loc EXCEPT ![p].calledGen = TRUE, ![p].reply = r]
  /\ UNCHANGED <<status, log, now, resp, nreq, reached, seenDays>>

\* A plausible slip: the generator call guarded by a try of its own that
\* puts the error marker in place of the reply, the request then going on
\* to the log and to the progression update.
GenerateFailLogs(p) ==
  /\ pc[p] = "gen"
  /\ pc' = [pc EXCEPT ![p] = "sheet"]
  /\ loc' = [loc EXCEPT ![p].calledGen = TRUE, ![p].reply = ErrorReply,
                        ![p].outcome = "generror"]
  /\ UNCHANGED <<status, log, now, resp, nreq, reached, seenDays>>

\* chat, lines 205-209 and 220-223: the generator raises, the except clause
\* of chat answers with the error marker.
GenerateFail(p) ==
  /\ pc[p] = "gen"
  /\ pc' = [pc EXCEPT ![p] = "done"]
  /\ resp' = [resp EXCEPT ![p] = ErrorReply]
  /\ loc' = [loc EXCEPT ![p].calledGen = TRUE, ![p].outcome = "generror"]
  /\ UNCHANGED <<status, log, now, nreq, reached, seenDays>>

\* get_gsheet, lines 50-58: both worksheets are opened.
GetSheet(p) ==
  /\ pc[p] = "sheet"
  /\ pc' = [pc EXCEPT ![p] = "log"]
  /\ loc' = [loc EXCEPT ![p].openedStore = TRUE]
  /\ UNCHANGED <<status, log, now, resp, nreq, reached, seenDays>>

\* get_gsheet, lines 59-62, then chat, lines 213 and 219: no store, the
\* reply is returned without logging or progression.
GetSheetFail(p) ==
  /\ pc[p] = "sheet"
  /\ pc' = [pc EXCEPT ![p] = "done"]
  /\ resp' = [resp EXCEPT ![p] = loc[p].reply]
  /\ loc' = [loc EXCEPT ![p].outcome = "nostore"]
  /\ UNCHANGED <<status, log, now, nreq, reached, seenDays>>

\* chat, lines 214-216, and write_log, line 67: the log row is appended.
WriteLog(p) ==
  /\ pc[p] = "log"
  /\ log' = Append(log, [timestamp |-> strftime(now), uid |-> loc[p].uid,
                         char_key |-> loc[p].char_key,
                         user_text |-> loc[p].user_text, reply |-> loc[p].reply])
  /\ pc' = [pc EXCEPT ![p] = "read"]
  /\ loc' = [loc EXCEPT ![p].logged = TRUE]
  /\ UNCHANGED <<status, now, resp, nreq, reached, seenDays>>

\* A plausible slip: a failed log append ends the side effects of the
\* request, the reply being returned without the progression update.
WriteLogFailAborts(p) ==
  /\ pc[p] = "log"
  /\ pc' = [pc EXCEPT ![p] = "done"]
  /\ resp' = [resp EXCEPT ![p] = loc[p].reply]
  /\ loc' = [loc EXCEPT ![p].outcome = "nolog"]
  /\ UNCHANGED <<status, log, now, nreq, reached, seenDays>>

\* write_log, lines 68-70: append_row raises, the error is swallowed.
WriteLogFail(p) ==
  /\ pc[p] = "log"
  /\ pc' = [pc EXCEPT ![p] = "read"]
  /\ UNCHANGED <<status, log, now, loc, resp, nreq, reached, seenDays>>

\* update_status, lines 75-120 and 141: the records are fetched, today is
\* taken from the clock, the first row of the uid is looked up and the new
\* values are computed in local variables.
ReadRecords(p) ==
  /\ pc[p] = "read"
  /\ LET records == status
         today == strftime(now)
         i == FindRow(records, loc[p].uid)
         row == records[i - FirstDataRow + 1]
     IN IF i = 0
        THEN /\ pc' = [pc EXCEPT ![p] = "append"]
             /\ loc' = [loc EXCEPT ![p].today = today]
        ELSE IF SameDate(row.last, today)
        THEN /\ pc' = [pc EXCEPT ![p] = "w6"]
             /\ loc' = [loc EXCEPT ![p].today = today, ![p].i = i, ![p].row = row,
                                   ![p].current_gp = row.gp,
                                   ![p].consecutive_grumble_days = row.streak,
                                   ![p].total_grumble_count = row.total]
        ELSE /\ pc' = [pc EXCEPT ![p] = "w7"]
             /\ loc' = [loc EXCEPT ![p].today = today, ![p].i = i, ![p].row = row,
                                   ![p].current_gp = NextGP(row.gp),
                                   ![p].consecutive_grumble_days = NextStreak(row.streak),
                                   ![p].total_grumble_count = row.total]
  /\ UNCHANGED <<status, log, now, resp, nreq>>

\* update_status, line 125
UpdateGP(p) ==
  /\ pc[p] = "w7"
  /\ status' = UpdateCell(status, loc[p].i, 7, loc[p].current_gp)
  /\ pc' = [pc EXCEPT ![p] = "w4"]
  /\ UNCHANGED <<log, now, loc, resp, nreq, reached, seenDays>>

\* update_status, line 126
UpdateLastDate(p) ==
  /\ pc[p] = "w4"
  /\ status' = UpdateCell(status, loc[p].i, 4, loc[p].today)
  /\ pc' = [pc EXCEPT ![p] = "w5"]
  /\ UNCHANGED <<log, now, loc, resp, nreq, reached, seenDays>>

\* update_status, line 127
UpdateStreak(p) ==
  /\ pc[p] = "w5"
  /\ status' = UpdateCell(status, loc[p].i, 5, loc[p].consecutive_grumble_days)
  /\ pc' = [pc EXCEPT ![p] = "w8"]
  /\ UNCHANGED <<log, now, loc, resp, nreq, reached, seenDays>>

\* A plausible slip: the write of the last points date left out.
UpdateLastGPDateSkipped(p) ==
  /\ pc[p] = "w8"
  /\ pc' = [pc EXCEPT ![p] = "w6"]
  /\ UNCHANGED <<status, log, now, loc, resp, nreq, reached, seenDays>>

\* update_status, line 128
UpdateLastGPDate(p) ==
  /\ pc[p] = "w8"
  /\ status' = UpdateCell(status, loc[p].i, 8, loc[p].today)
  /\ pc' = [pc EXCEPT ![p] = "w6"]
  /\ UNCHANGED <<log, now, loc, resp, nreq, reached, seenDays>>

\* A read-modify-write that cannot lose an update: the count is taken from
\* the cell as it is when the write happens.
TotalToWriteFresh(p) == NextTotal(status[loc[p].i - FirstDataRow + 1].total)

\* The value line 133 writes: the count read at line 109, plus one.
TotalToWrite(p) == NextTotal(loc[p].total_grumble_count)

\* A plausible slip: the update also stores the persona of the request
\* ("last-used persona key") in column B.
UpdateTotalAndKey(p) ==
  /\ pc[p] = "w6"
  /\ status' = UpdateCell(UpdateCell(status, loc[p].i, 2, loc[p].char_key),
                          loc[p].i, 6, TotalToWrite(p))
  /\ pc' = [pc EXCEPT ![p] = "done"]
  /\ loc' = [loc EXCEPT ![p].total_grumble_count = TotalToWrite(p),
                        ![p].outcome = "updated"]
  /\ resp' = [resp EXCEPT ![p] = loc[p].reply]
  /\ UNCHANGED <<log, now, nreq, reached, seenDays>>

\* update_status, lines 132-138, then chat, line 219
UpdateTotal(p) ==
  /\ pc[p] = "w6"
  /\ status' = UpdateCell(status, loc[p].i, 6, TotalToWrite(p))
  /\ pc' = [pc EXCEPT ![p] = "done"]
  /\ loc' = [loc EXCEPT ![p].total_grumble_count = TotalToWrite(p),
                        ![p].outcome = "updated"]
  /\ resp' = [resp EXCEPT ![p] = loc[p].reply]
  /\ UNCHANGED <<log, now, nreq, reached, seenDays>>

\* update_status, lines 141-156, then chat, line 219
AppendUser(p) ==
  /\ pc[p] = "append"
  /\ status' = Append(status, NewUserRow(loc[p].uid, loc[p].char_key, loc[p].today))
  /\ pc' = [pc EXCEPT ![p] = "done"]
  /\ loc' = [loc EXCEPT ![p].outcome = "created"]
  /\ resp' = [resp EXCEPT ![p] = loc[p].reply]
  /\ UNCHANGED <<log, now, nreq, reached, seenDays>>

StatusCalls == {"read", "w7", "w4", "w5", "w8", "w6", "append"}

\* A plausible slip: update_status without its own try, so that the error
\* reaches the except clause of chat and replaces the reply.
StatusFailSurfaces(p) ==
  /\ pc[p] \in StatusCalls
  /\ pc' = [pc EXCEPT ![p] = "done"]
  /\ loc' = [loc EXCEPT ![p].outcome = "failed"]
  /\ resp' = [resp EXCEPT ![p] = ErrorReply]
  /\ UNCHANGED <<status, log, now, nreq, reached, seenDays>>

\* update_status, lines 157-160, then chat, line 219: get_all_records,
\* update_cell or append_row raises; the error is swallowed.
StatusFail(p) ==
  /\ pc[p] \in StatusCalls
  /\ pc' = [pc EXCEPT ![p] = "done"]
  /\ loc' = [loc EXCEPT ![p].outcome = "failed"]
  /\ resp' = [resp EXCEPT ![p] = loc[p].reply]
  /\ UNCHANGED <<status, log, now, nreq, reached, seenDays>>

\* The wall clock moves on to a later day.
ClockForward ==
  /\ \E d \in (now + 1)..MaxDay : now' = d
  /\ UNCHANGED <<status, log, pc, loc, resp, nreq, reached, seenDays>>

\* The wall clock is set back (a clock adjustment, or a change of the
\* host's time zone).
ClockBack ==
  /\ \E d \in 1..(now - 1) : now' = d
  /\ UNCHANGED <<status, log, pc, loc, resp, nreq, reached, seenDays>>

\* ----------------------------------------------------- specifications

\* Any request body.
Arrive(p) ==
  /\ \E text \in Texts, ck \in CharKeys, uid \in UidPool : Receive(p, text, ck, uid)
  /\ UNCHANGED <<reached, seenDays>>

\* A request that passes the checks of lines 185 and 189.
ArriveValid(p) ==
  /\ \E text \in Texts, ck \in CharKeys, uid \in UidPool :
        /\ ~IsBlank(text)
        /\ ck \in characters
        /\ Receive(p, text, ck, uid)
  /\ UNCHANGED <<reached, seenDays>>

Respond(p) == \E r \in Replies : Generate(p, r)

\* ReadRecords, with the history of the user's requests kept.
ReadCounted(p) ==
  /\ ReadRecords(p)
  /\ reached' = [reached EXCEPT ![Strip(loc[p].uid)] = @ + 1]
  /\ seenDays' = [seenDays EXCEPT ![Strip(loc[p].uid)] = @ \cup {now}]

\* ReadRecords, with no history kept.
ReadPlain(p) == ReadRecords(p) /\ UNCHANGED <<reached, seenDays>>

\* The calls of update_status that write, none failing.
Writes(p) ==
  \/ UpdateGP(p)
  \/ UpdateLastDate(p)
  \/ UpdateStreak(p)
  \/ UpdateLastGPDate(p)
  \/ UpdateTotal(p)
  \/ AppendUser(p)

\* The date changes while no request is being handled.
DayPasses == Quiet /\ ClockForward

ClockSetBack == Quiet /\ ClockBack

\* One request at a time; the generator may fail, the spreadsheet does not;
\* the date changes between requests, forward or back.
NextSeq ==
  \/ \E p \in SeqProcs : Arrive(p)
  \/ \E p \in SeqProcs : Respond(p)
  \/ \E p \in SeqProcs : GenerateFail(p)
  \/ \E p \in SeqProcs : GetSheet(p)
  \/ \E p \in SeqProcs : WriteLog(p)
  \/ \E p \in SeqProcs : ReadCounted(p)
  \/ \E p \in SeqProcs : Writes(p)
  \/ DayPasses
  \/ ClockSetBack

SpecSeq == Init /\ [][NextSeq]_vars

\* As SpecSeq, with a clock that never goes back but may pass midnight at
\* any moment of a request.
NextMono ==
  \/ \E p \in SeqProcs : Arrive(p)
  \/ \E p \in SeqProcs : Respond(p)
  \/ \E p \in SeqProcs : GenerateFail(p)
  \/ \E p \in SeqProcs : GetSheet(p)
  \/ \E p \in SeqProcs : WriteLog(p)
  \/ \E p \in SeqProcs : ReadCounted(p)
  \/ \E p \in SeqProcs : Writes(p)
  \/ ClockForward

SpecMono == Init /\ [][NextMono]_vars

\* Handler threads run concurrently on valid requests; nothing fails; the
\* clock may pass midnight at any moment.
NextConc ==
  \/ \E p \in Procs : ArriveValid(p)
  \/ \E p \in Procs : Respond(p)
  \/ \E p \in Procs : GetSheet(p)
  \/ \E p \in Procs : WriteLog(p)
  \/ \E p \in Procs : ReadPlain(p)
  \/ \E p \in Procs : Writes(p)
  \/ DayPasses
  \/ ClockSetBack

SpecConc == Init /\ [][NextConc]_vars

\* One request at a time; every collaborator may fail; the date changes
\* between requests, forward or back.
NextFail ==
  \/ \E p \in SeqProcs : Arrive(p)
  \/ \E p \in SeqProcs : Respond(p)
  \/ \E p \in SeqProcs : GenerateFail(p)
  \/ \E p \in SeqProcs : GetSheet(p)
  \/ \E p \in SeqProcs : GetSheetFail(p)
  \/ \E p \in SeqProcs : WriteLog(p)
  \/ \E p \in SeqProcs : WriteLogFail(p)
  \/ \E p \in SeqProcs : ReadPlain(p)
  \/ \E p \in SeqProcs : Writes(p)
  \/ \E p \in SeqProcs : StatusFail(p)
  \/ DayPasses

SpecFail == Init /\ [][NextFail]_vars

\* A request with text, carrying any key of the catalog.
ArriveKeys(p) ==
  /\ \E text \in Texts, ck \in KeyPool, uid \in UidPool :
        /\ ~IsBlank(text)
        /\ Receive(p, text, ck, uid)
  /\ UNCHANGED <<reached, seenDays>>

\* One request at a time, nothing fails, the persona changes from request
\* to request; the date changes between requests, forward or back.
NextKeys ==
  \/ \E p \in SeqProcs : ArriveKeys(p)
  \/ \E p \in SeqProcs : Respond(p)
  \/ \E p \in SeqProcs : GetSheet(p)
  \/ \E p \in SeqProcs : WriteLog(p)
  \/ \E p \in SeqProcs : ReadPlain(p)
  \/ \E p \in SeqProcs : Writes(p)
  \/ DayPasses
  \/ ClockSetBack

SpecKeys == Init /\ [][NextKeys]_vars

\* One request at a time with the history kept; any call of update_status
\* may fail; the date only moves forward, between requests.
NextPartial ==
  \/ \E p \in SeqProcs : Arrive(p)
  \/ \E p \in SeqProcs : Respond(p)
  \/ \E p \in SeqProcs : GetSheet(p)
  \/ \E p \in SeqProcs : WriteLog(p)
  \/ \E p \in SeqProcs : ReadCounted(p)
  \/ \E p \in SeqProcs : Writes(p)
  \/ \E p \in SeqProcs : StatusFail(p)
  \/ DayPasses

SpecPartial == Init /\ [][NextPartial]_vars

\* What the cell of column D may hold after the sheet was edited by hand
\* (row.get at line 100 defaults to "" and takes any text).
MalformedDates == {"", "n/a"}

\* The process starts with the row of uid "u" holding a last date that is
\* not a date.
InitMalformed ==
  /\ \E m \in MalformedDates :
        status = <<[NewUserRow(EarlierUid, "hikage", strftime(1)) EXCEPT !.last = m]>>
  /\ log = <<[timestamp |-> strftime(1), uid |-> EarlierUid, char_key |-> "hikage",
              user_text |-> EarlierText, reply |-> "r"]>>
  /\ reached = [u \in Users |-> IF u = Strip(EarlierUid) THEN 1 ELSE 0]
  /\ seenDays = [u \in Users |-> IF u = Strip(EarlierUid) THEN {1} ELSE {}]
  /\ now \in 1..MaxDay
  /\ pc = [p \in Procs |-> "idle"]
  /\ loc = [p \in Procs |-> NoLocals]
  /\ resp = [p \in Procs |-> "none"]
  /\ nreq = 0

\* As SpecSeq, from a sheet with a malformed last date.
SpecMalformed == InitMalformed /\ [][NextSeq]_vars

\* ------------------------------------------------------------- claims

\* The day a stored date text stands for.
DayOf(s) == CHOOSE d \in 1..Len(DateText) : DateText[d] = s

\* The row handler p addressed, as the store holds it now.
RowOf(p) == status[loc[p].i - FirstDataRow + 1]

\* Handler p has returned from update_status after updating an existing row.
Updated(p) == pc[p] = "done" /\ loc[p].outcome = "updated"

\* The rows of user u.
RowsOf(u) == {k \in 1..Len(status) : Strip(status[k].uid) = u}

PointsOf(u) == IF RowsOf(u) = {} THEN 0 ELSE status[CHOOSE k \in RowsOf(u) : TRUE].gp

TotalOf(u) == IF RowsOf(u) = {} THEN 0 ELSE status[CHOOSE k \in RowsOf(u) : TRUE].total

\* C1: after an update of a record whose stored last date is neither today
\* nor the day before today, the stored streak is 1.
C1_StreakResets ==
  \A p \in Procs :
    (/\ Updated(p)
     /\ loc[p].row.last # loc[p].today
     /\ DayOf(loc[p].row.last) # DayOf(loc[p].today) - 1)
    => RowOf(p).streak = 1

\* C2: with requests served one at a time, no failing store call and a clock
\* that never goes back, a user's points are 10 times the number of distinct
\* dates on which the user's requests reached the progression step.
C2_PointsOncePerDate ==
  Quiet => \A u \in Users : PointsOf(u) = 10 * Cardinality(seenDays[u])

\* C2 case: a user with three requests on two dates.
C2_Witness ==
  /\ Quiet
  /\ \E u \in Users : reached[u] = 3 /\ Cardinality(seenDays[u]) = 2 /\ PointsOf(u) = 20

\* C3: the step that ends an update for a uid without a row appends exactly
\* one row (uid, char_key, initial stage, today, 1, 1, 10, today), today
\* being the date the update took from the clock, and leaves every existing
\* row as it was; looking the uid up changes no row.
C3_NewUserRow ==
  [][\A p \in Procs :
       /\ (pc[p] = "read" /\ pc'[p] # "read") => status' = status
       /\ (pc[p] = "append" /\ pc'[p] # "append") =>
            /\ RowsOf(Strip(loc[p].uid)) = {}
            /\ status' = Append(status,
                 [uid |-> loc[p].uid, char_key |-> loc[p].char_key, stage |-> InitialStage,
                  last |-> loc[p].today, streak |-> 1, total |-> 1, gp |-> 10,
                  lastgp |-> loc[p].today])]_vars

\* C3 case: a row was appended below an existing one.
C3_Witness ==
  \E p \in Procs :
    /\ pc[p] = "done"
    /\ loc[p].outcome = "created"
    /\ Len(status) = 2
    /\ status[2].uid = loc[p].uid

\* C4: after an update of a record whose stored last date is today, the row
\* is the row that was read with total_interactions one higher and nothing
\* else changed.
C4_SameDay ==
  \A p \in Procs :
    (Updated(p) /\ loc[p].row.last = loc[p].today)
    => RowOf(p) = [loc[p].row EXCEPT !.total = loc[p].row.total + 1]

\* C4 case: a same-day update has completed.
C4_Witness ==
  \E p \in Procs : Updated(p) /\ loc[p].row.last = loc[p].today /\ RowOf(p).total = 2

\* C5: after an update of a record whose stored last date is the day before
\* today, the streak is one higher and the last date is today.
C5_NextDay ==
  \A p \in Procs :
    (Updated(p) /\ DayOf(loc[p].row.last) = DayOf(loc[p].today) - 1)
    => /\ RowOf(p).streak = loc[p].row.streak + 1
       /\ RowOf(p).last = loc[p].today

\* C5 case: a next-day update has completed.
C5_Witness ==
  \E p \in Procs :
    /\ Updated(p)
    /\ DayOf(loc[p].row.last) = DayOf(loc[p].today) - 1
    /\ RowOf(p).streak = 2

\* C6: with requests served one at a time and no failing store call, a
\* user's total_interactions equals the number of the user's requests that
\* reached the progression step, whatever their dates.
C6_TotalCountsRequests ==
  Quiet => \A u \in Users : TotalOf(u) = reached[u]

\* C6 case: a user created in this run and seen again, the clock having
\* been set back in between.
C6_Witness ==
  /\ Quiet
  /\ \E u \in Users : u # Strip(EarlierUid) /\ reached[u] = 2 /\ TotalOf(u) = 2
  /\ \E p \in Procs : Updated(p) /\ DayOf(loc[p].today) < DayOf(loc[p].row.last)

\* C7: no two rows of the status store carry the same uid.
C7_OneRowPerUid ==
  \A j, k \in 1..Len(status) :
    Strip(status[j].uid) = Strip(status[k].uid) => j = k

\* C8: when two handlers have both read the same stored record of a uid and
\* both have written back, total_interactions is one more than the value
\* they read: one of the two increments is lost.
C8_LostUpdate ==
  \A p, q \in Procs :
    (/\ p # q
     /\ Updated(p)
     /\ Updated(q)
     /\ loc[p].i = loc[q].i
     /\ loc[p].row = loc[q].row)
    => RowOf(p).total = loc[p].row.total + 1

\* C8 case: both handlers completed on the same record read.
C8_Witness ==
  \E p, q \in Procs :
    /\ p # q
    /\ Updated(p)
    /\ Updated(q)
    /\ loc[p].i = loc[q].i
    /\ loc[p].row = loc[q].row
    /\ RowOf(p).total = loc[p].row.total + 1

\* C9: a request whose generator call raised has been answered with the
\* error marker, and its handler is where a handler that serves requests is.
C9_GeneratorFailure ==
  \A p \in Procs :
    /\ loc[p].outcome = "generror" => (pc[p] = "done" /\ resp[p] = ErrorReply)
    /\ pc[p] \in {"idle", "gen", "sheet", "log", "done"} \cup StatusCalls

\* C9 case: the handler whose previous request failed in the generator has
\* served the next request in full.
C9_Witness ==
  \E p \in Procs :
    /\ loc[p].afterGenFail
    /\ pc[p] = "done"
    /\ loc[p].outcome \in {"updated", "created"}
    /\ resp[p] \in Replies

\* A request with empty or whitespace-only text.
BlankRequest(p) == loc[p].kind \in {"empty", "white"}

\* C10: a request with empty or whitespace-only text is answered with the
\* retry prompt at once, with no generator call, no store connection and no
\* log row, and the step that accepts it changes neither worksheet.
C10_BlankText ==
  /\ [](\A p \in Procs :
         BlankRequest(p) =>
           /\ pc[p] = "done"
           /\ resp[p] = RetryReply
           /\ loc[p].outcome = "rejected"
           /\ ~loc[p].calledGen
           /\ ~loc[p].openedStore
           /\ ~loc[p].logged)
  /\ [][(nreq' # nreq /\ \E p \in Procs : pc[p] # "gen" /\ pc'[p] = "done")
         => (status' = status /\ log' = log)]_vars

\* C10 case: a whitespace-only request answered while the store holds rows.
C10_Witness ==
  \E p \in Procs :
    /\ loc[p].kind = "white"
    /\ resp[p] = RetryReply
    /\ Len(status) >= 1
    /\ Len(log) >= 1

\* A request with text whose character key is not in the catalog.
UnknownCharRequest(p) == loc[p].kind = "text" /\ loc[p].char_key \notin characters

\* C11: a request with non-empty text and a character key absent from the
\* catalog is answered with the "character not found" reply at once, with no
\* generator call, no store connection and no log row, and the step that
\* accepts it changes neither worksheet.
C11_UnknownCharacter ==
  /\ [](\A p \in Procs :
         UnknownCharRequest(p) =>
           /\ pc[p] = "done"
           /\ resp[p] = NotFoundReply
           /\ ~loc[p].calledGen
           /\ ~loc[p].openedStore
           /\ ~loc[p].logged)
  /\ [][(\E p \in Procs : loc'[p] # loc[p] /\ loc'[p].kind = "text"
                           /\ loc'[p].char_key \notin characters)
         => (status' = status /\ log' = log)]_vars

\* C11 case: an unknown key answered while both worksheets hold rows.
C11_Witness ==
  \E p \in Procs :
    /\ UnknownCharRequest(p)
    /\ resp[p] = NotFoundReply
    /\ Len(status) >= 1
    /\ Len(log) >= 1

\* Handler p has returned from a request whose reply was generated.
Generated(p) == pc[p] = "done" /\ loc[p].calledGen /\ loc[p].outcome # "generror"

\* C12: a request whose reply was generated returns that reply, whether the
\* store connection, the log append or any call of the progression update
\* succeeded or failed, and ends in a normal return in each of these cases.
C12_ReplyUnaffected ==
  \A p \in Procs :
    /\ Generated(p) =>
         /\ loc[p].reply \in Replies
         /\ resp[p] = loc[p].reply
         /\ loc[p].outcome \in {"nostore", "failed", "updated", "created"}
    /\ (pc[p] \in {"sheet", "log"} \cup StatusCalls) => loc[p].reply \in Replies

\* C12 case: the log append failed and then a cell write of an existing
\* row failed, and the generated reply was returned.
C12_Witness ==
  \E p \in Procs :
    /\ Generated(p)
    /\ loc[p].outcome = "failed"
    /\ ~loc[p].logged
    /\ loc[p].i # 0
    /\ status[loc[p].i - FirstDataRow + 1].gp # loc[p].row.gp
    /\ resp[p] = loc[p].reply

\* C13: no step of a request changes the user_id, the character_key or the
\* current_stage of a row the store already holds, whatever key the request
\* carries and whatever the stored date and the date of the request are.
C13_IdentityColumnsKept ==
  [][/\ Len(status') >= Len(status)
     /\ \A k \in 1..Len(status) :
          /\ status'[k].uid = status[k].uid
          /\ status'[k].char_key = status[k].char_key
          /\ status'[k].stage = status[k].stage]_vars

\* C13 case: an update on a new date has completed for a request whose key
\* differs from the key of the row.
C13_Witness ==
  \E p \in Procs :
    /\ Updated(p)
    /\ loc[p].char_key # RowOf(p).char_key
    /\ loc[p].row.last # loc[p].today
    /\ RowOf(p).total = loc[p].row.total + 1

\* C14: after an update of a record whose stored last date is not a date,
\* the stored streak is what it was and the total is one higher.
C14_MalformedDateKeepsStreak ==
  \A p \in Procs :
    (Updated(p) /\ loc[p].row.last \in MalformedDates)
    => /\ RowOf(p).streak = loc[p].row.streak
       /\ RowOf(p).total = loc[p].row.total + 1

\* C15: with requests served one at a time, a clock that never goes back and
\* calls of the progression update that may fail at any point, a user's
\* points are at most 10 times the number of distinct dates on which the
\* user's requests reached the progression step.
C15_PointsOncePerDateAfterFailure ==
  \A u \in Users : PointsOf(u) <= Award * Cardinality(seenDays[u])

\* C16: within a request the log step is entered only with a generated
\* reply and the progression update only from the log step; the log step,
\* failed or not, changes no progression record, appends at most the row of
\* the request and hands over to the progression update; no step of the
\* progression update, failed or not, changes the log.
C16_StepOrderAndIndependence ==
  [][\A p \in Procs :
       /\ (pc'[p] = "log" /\ pc[p] # "log") =>
            (pc[p] = "sheet" /\ loc[p].calledGen /\ loc[p].reply \in Replies)
       /\ (pc'[p] \in StatusCalls /\ pc[p] \notin StatusCalls) => pc[p] = "log"
       /\ (pc[p] = "log" /\ pc'[p] # "log") =>
            /\ pc'[p] = "read"
            /\ status' = status
            /\ \/ log' = log /\ loc'[p].logged = loc[p].logged
               \/ /\ log' = Append(log, [timestamp |-> strftime(now), uid |-> loc[p].uid,
                                          char_key |-> loc[p].char_key,
                                          user_text |-> loc[p].user_text,
                                          reply |-> loc[p].reply])
                  /\ loc'[p].logged
       /\ (pc[p] \in StatusCalls /\ pc'[p] # pc[p]) => log' = log]_vars

\* C16 case: the first request of a user was logged and its progression
\* update failed; the log append of the user's second request failed and
\* its progression update created the user's row.
C16_Witness ==
  \E p \in Procs :
    /\ Generated(p)
    /\ loc[p].outcome = "created"
    /\ ~loc[p].logged
    /\ Len(log) = 1
    /\ log[1].uid = loc[p].uid
    /\ Len(status) = 1
    /\ status[1].uid = loc[p].uid

\* A request whose generator call raised.
GeneratorFailed(p) == loc[p].outcome = "generror"

\* C17: a request whose generator call raised has returned without opening
\* the store and without a log row, no state of the progression update is
\* entered by it, and the step in which the call raises changes neither the
\* log nor any progression record.
C17_GeneratorFailureNoSideEffect ==
  /\ [](\A p \in Procs :
         GeneratorFailed(p) =>
           /\ pc[p] = "done"
           /\ ~loc[p].openedStore
           /\ ~loc[p].logged
           /\ loc[p].i = 0)
  /\ [][\A p \in Procs :
         (GeneratorFailed(p)' /\ ~GeneratorFailed(p)) => (status' = status /\ log' = log)]_vars

\* C17 case: the generator failed for a user who has a row and a log row
\* from an earlier request, on a later date.
C17_Witness ==
  \E p \in Procs :
    /\ GeneratorFailed(p)
    /\ resp[p] = ErrorReply
    /\ RowsOf(Strip(loc[p].uid)) # {}
    /\ \A k \in RowsOf(Strip(loc[p].uid)) : status[k].last # strftime(now)
    /\ Len(log) >= 1

\* C18: in any interleaving of concurrent requests, no step shortens the
\* status store, and a step that changes a row is a step of the progression
\* update of a handler whose request carries the uid of that row.
C18_OtherRowsUntouched ==
  [][/\ Len(status') >= Len(status)
     /\ \A k \in 1..Len(status) :
          status'[k] # status[k] =>
            \E p \in Procs :
              /\ pc[p] \in StatusCalls
              /\ pc'[p] # pc[p]
              /\ loc[p].i = k + FirstDataRow - 1
              /\ Strip(status[k].uid) = Strip(loc[p].uid)]_vars

\* C18 case: an update has completed on the second row of the store, the
\* first row belonging to another user.
C18_Witness ==
  \E p \in Procs :
    /\ Updated(p)
    /\ loc[p].i = FirstDataRow + 1
    /\ Len(status) >= 2
    /\ Strip(status[1].uid) # Strip(loc[p].uid)
    /\ RowOf(p).total = 2

\* C19: with requests served one at a time and no failing write, between
\* requests every record has its last interaction date equal to its last
\* points date, and so has every record a progression update has read: the
\* test of line 117 on the one date is the test on the other.
C19_GateDatesAgree ==
  /\ Quiet => \A k \in 1..Len(status) : status[k].last = status[k].lastgp
  /\ \A p \in Procs :
       loc[p].i # 0 =>
         /\ loc[p].row.last = loc[p].row.lastgp
         /\ SameDate(loc[p].row.last, loc[p].today) = SameDate(loc[p].row.lastgp, loc[p].today)

\* C19 case: from an empty store, a user's row was created and then updated
\* on another date.
C19_Witness ==
  \E p \in Procs :
    /\ Updated(p)
    /\ Len(status) = 1
    /\ Strip(loc[p].uid) = <<"v">>
    /\ loc[p].row.last # loc[p].today
    /\ RowOf(p).last = loc[p].today
    /\ RowOf(p).lastgp = loc[p].today

====
